---- MODULE Spec2Model ----
(***************************************************************************)
(* Model of the MathMind AI front end (src/types.ts holds the App          *)
(* component, src/services/geminiService.ts the remote calls): the         *)
(* presentation flow of handlePresentationFlow, from the topic and the     *)
(* slide count typed by the user, through the remote content and           *)
(* illustration requests, to the deck built with PptxGenJS and the file    *)
(* name it is written under.                                               *)
(*                                                                         *)
(* Strings whose characters matter (the user's input, the deck title, the  *)
(* file name) are sequences of one-character strings.  Lengths on a slide  *)
(* are in thousandths of an inch (the code's 0.5 is 500): the code works   *)
(* in IEEE doubles and PptxGenJS rounds every length to whole EMU          *)
(* (914400 per inch), where each sum below is exact.                       *)
(* An optional value (a JSON field that may be missing, a local that is    *)
(* not yet assigned) is a sequence of length 0 or 1.                       *)
(* The other views send through handleStandardFlow and handleFileUpload;   *)
(* each call under way is an entry of standard, with the view its closure  *)
(* holds.                                                                  *)
(* now is the millisecond clock Date.now() reads, and ids[v] holds the ids *)
(* of the messages of messages[v], in the same order.                      *)
(***************************************************************************)
EXTENDS Integers, Sequences, FiniteSets, TLC

VARIABLES view, presentationStep, presentationTopic, messages, isLoading,
          pc, data, slidesWithImages, pres, fileName, requests, exported,
          standard, now, ids

vars == <<view, presentationStep, presentationTopic, messages, isLoading,
          pc, data, slidesWithImages, pres, fileName, requests, exported,
          standard, now, ids>>

----------------------------------------------------------------------------
(* Bounds of the model *)

\* longest input typed at the slide-count prompt
MaxInputLen == 2
\* longest presentation log; a send needs room for the message, its reply
\* and the result of the generation it may start
MaxLog == 8
\* most slide records in a generated deck
MaxSlides == 2
\* most bullets, and most examples, of a slide record
MaxItems == 2
\* longest deck title
MaxTitleLen == 3
\* longest log of a view other than the presentation view when a message
\* is sent or a file is uploaded there
MaxChat == 3
\* most calls of handleStandardFlow and handleFileUpload under way at once
MaxInFlight == 2
\* the last millisecond the clock reaches
MaxClock == 4

----------------------------------------------------------------------------
(* Values *)

ViewState == {"TUTOR", "VISUALIZER", "SOLVER", "EXPLORER", "PRESENTATION"}

USER == "USER"
AI == "AI"

None == <<>>
Some(v) == <<v>>
IsSome(o) == Len(o) = 1
Get(o) == o[1]

RECURSIVE SeqsUpTo(_, _)
\* all sequences over S of length at most n
SeqsUpTo(S, n) ==
    IF n = 0 THEN {<<>>}
    ELSE LET shorter == SeqsUpTo(S, n - 1)
         IN  shorter \cup {Append(s, c) : s \in shorter, c \in S}

\* characters a user may type at the prompt
InputChars == {"0", "1", "2", "a", "-", " "}
\* characters of a deck title: Latin upper and lower case, a digit, a space
\* and the Arabic letter ain, written "U+0639" (one character)
TitleChars == {"A", "b", "7", "U+0639", " "}
\* the strings bullets and examples are made of: "p" is a short string and
\* "q" stands for one of 2500 characters
Texts == {"p", "q"}
\* the number of characters of such a string
TextLength(t) == IF t = "q" THEN 2500 ELSE 1

----------------------------------------------------------------------------
(* String.prototype.trim, parseInt, isNaN *)

IsWhiteSpace(c) == c \in {" ", "\t", "\n"}

RECURSIVE TrimStart(_)
TrimStart(s) ==
    IF s # <<>> /\ IsWhiteSpace(Head(s)) THEN TrimStart(Tail(s)) ELSE s

RECURSIVE TrimEnd(_)
TrimEnd(s) ==
    IF s # <<>> /\ IsWhiteSpace(s[Len(s)])
    THEN TrimEnd(SubSeq(s, 1, Len(s) - 1)) ELSE s

Trim(s) == TrimEnd(TrimStart(s))

DecDigits == {"0", "1", "2", "3", "4", "5", "6", "7", "8", "9"}
HexDigits == DecDigits \cup {"a", "b", "c", "d", "e", "f",
                             "A", "B", "C", "D", "E", "F"}

DigitVal(c) ==
    CASE c = "0" -> 0 [] c = "1" -> 1 [] c = "2" -> 2 [] c = "3" -> 3
      [] c = "4" -> 4 [] c = "5" -> 5 [] c = "6" -> 6 [] c = "7" -> 7
      [] c = "8" -> 8 [] c = "9" -> 9
      [] c \in {"a", "A"} -> 10 [] c \in {"b", "B"} -> 11
      [] c \in {"c", "C"} -> 12 [] c \in {"d", "D"} -> 13
      [] c \in {"e", "E"} -> 14 [] c \in {"f", "F"} -> 15

RECURSIVE DigitPrefix(_, _)
\* the longest prefix of s made of digits of the radix
DigitPrefix(s, digits) ==
    IF s # <<>> /\ Head(s) \in digits
    THEN <<Head(s)>> \o DigitPrefix(Tail(s), digits)
    ELSE <<>>

RECURSIVE DigitsValue(_, _)
DigitsValue(z, radix) ==
    IF z = <<>> THEN 0
    ELSE DigitsValue(SubSeq(z, 1, Len(z) - 1), radix) * radix
         + DigitVal(z[Len(z)])

\* parseInt(input) with no radix: leading white space is skipped, a sign is
\* read, "0x" selects radix 16, then the longest run of digits is the
\* number and whatever follows it is ignored; no digit gives NaN.
ParseInt(input) ==
    LET s0     == TrimStart(input)
        signed == s0 # <<>> /\ Head(s0) \in {"-", "+"}
        sign   == IF s0 # <<>> /\ Head(s0) = "-" THEN -1 ELSE 1
        s1     == IF signed THEN Tail(s0) ELSE s0
        hex    == Len(s1) >= 2 /\ s1[1] = "0" /\ s1[2] \in {"x", "X"}
        s2     == IF hex THEN SubSeq(s1, 3, Len(s1)) ELSE s1
        radix  == IF hex THEN 16 ELSE 10
        z      == DigitPrefix(s2, IF hex THEN HexDigits ELSE DecDigits)
    IN  IF z = <<>> THEN [isNaN |-> TRUE, value |-> 0]
        ELSE [isNaN |-> FALSE, value |-> sign * DigitsValue(z, radix)]

\* the test of the slide count: isNaN(count) || count < 1 || count > 20
CountRejected(count) == count.isNaN \/ count.value < 1 \/ count.value > 20

----------------------------------------------------------------------------
(* The deck: layout constants, in thousandths of an inch *)

SLIDE_WIDTH == 10000
SLIDE_HEIGHT == 5625
MARGIN == 500

contentY == 1100
contentHeight == 2800
imageWidth == 3200
\* the "0.2 gap" between the image and the text
gap == 200
textWidth == SLIDE_WIDTH - (MARGIN * 2) - imageWidth - gap
\* a faulty variant of textX: the text starts where the image ends
textXFromImage == MARGIN + imageWidth
textX == SLIDE_WIDTH - MARGIN - textWidth
imageX == MARGIN
\* a faulty variant of examplesY: the band starts inside the content region
examplesYInsideContent == contentY + contentHeight - 100
\* contentY + contentHeight + 0.1
examplesY == contentY + contentHeight + 100
\* a faulty variant of examplesHeight: the bottom margin is not left free
examplesHeightToEdge == SLIDE_HEIGHT - examplesY
examplesHeight == SLIDE_HEIGHT - examplesY - MARGIN

\* w: '90%' of the slide width
Percent90 == (SLIDE_WIDTH * 90) \div 100

\* the constant texts put on slides
Attribution == "MathMind AI attribution"
NoImageCaption == "no image"
ExamplesLabel == "Examples:"

\* what generateSlideImage returns: null, or a data URL
NullImage == "null"
DataUrl == "data:image/png;base64"

\* imageBase64 is tested for truthiness
Truthy(str) == str # NullImage /\ str # ""

----------------------------------------------------------------------------
(* The deck: slides and their elements, in the order they are added.  An    *)
(* element records the call that adds it (part), its kind, what it shows,  *)
(* its box and the options the claims are about.                           *)

\* titleSlide = pres.addSlide() and its two addText calls
TitleSlide(title) ==
    [background |-> "F1F5F9",
     elements |-> <<
        [part |-> "deckTitle", kind |-> "text", content |-> title, x |-> 500, y |-> 2000,
         w |-> Percent90,
         opts |-> [fontSize |-> 36, bold |-> TRUE, align |-> "center",
                   rtl |-> TRUE, shrinkText |-> FALSE]],
        [part |-> "attribution", kind |-> "text", content |-> Attribution, x |-> 500, y |-> 3500,
         w |-> Percent90,
         opts |-> [fontSize |-> 18, bold |-> FALSE, align |-> "center",
                   rtl |-> TRUE, shrinkText |-> FALSE]] >>,
     notes |-> None]

\* slide.addText(s.title, ...)
TitleArea(s) ==
    << [part |-> "title", kind |-> "text", content |-> s.title,
        x |-> MARGIN, y |-> 300, w |-> SLIDE_WIDTH - (MARGIN * 2), h |-> 700,
        opts |-> [fontSize |-> 24, bold |-> TRUE, align |-> "right",
                  rtl |-> TRUE, shrinkText |-> FALSE]] >>

\* a faulty variant of ImageArea: the caption gets a box of its own
ImageAreaOwnCaptionBox(s) ==
    IF Truthy(s.imageBase64)
    THEN << [part |-> "image", kind |-> "image", content |-> s.imageBase64,
             x |-> imageX, y |-> contentY, w |-> imageWidth,
             h |-> contentHeight,
             opts |-> [sizing |-> [type |-> "contain", w |-> imageWidth,
                                   h |-> contentHeight]]] >>
    ELSE << [part |-> "placeholder", kind |-> "shape", content |-> "rect",
             x |-> imageX, y |-> contentY, w |-> imageWidth,
             h |-> contentHeight,
             opts |-> [fill |-> "F1F5F9"]],
            [part |-> "caption", kind |-> "text", content |-> NoImageCaption,
             x |-> imageX, y |-> contentY + 1250, w |-> imageWidth,
             h |-> 300,
             opts |-> [fontSize |-> 10, bold |-> FALSE, align |-> "center",
                       rtl |-> FALSE, shrinkText |-> FALSE]] >>

\* the image, or the fallback box and its caption
ImageArea(s) ==
    IF Truthy(s.imageBase64)
    THEN << [part |-> "image", kind |-> "image", content |-> s.imageBase64,
             x |-> imageX, y |-> contentY, w |-> imageWidth,
             h |-> contentHeight,
             opts |-> [sizing |-> [type |-> "contain", w |-> imageWidth,
                                   h |-> contentHeight]]] >>
    ELSE << [part |-> "placeholder", kind |-> "shape", content |-> "rect",
             x |-> imageX, y |-> contentY, w |-> imageWidth,
             h |-> contentHeight,
             opts |-> [fill |-> "F1F5F9"]],
            [part |-> "caption", kind |-> "text", content |-> NoImageCaption,
             x |-> imageX, y |-> contentY, w |-> imageWidth,
             h |-> contentHeight,
             opts |-> [fontSize |-> 10, bold |-> FALSE, align |-> "center",
                       rtl |-> FALSE, shrinkText |-> FALSE]] >>

\* s.bullets.map(b => ({ text: b, options: {... bullet: true ...} }))
BulletRuns(bullets) ==
    [i \in 1..Len(bullets) |->
        [text |-> bullets[i], bullet |-> "bullet", rtl |-> TRUE,
         align |-> "right"]]

\* a faulty variant of BulletsArea: the text is not shrunk to its box
BulletsAreaNoShrink(s) ==
    << [part |-> "bullets", kind |-> "text",
        content |-> BulletRuns(Get(s.bullets)),
        x |-> textX, y |-> contentY, w |-> textWidth, h |-> contentHeight,
        opts |-> [fontSize |-> 16, bold |-> FALSE, align |-> "right",
                  rtl |-> TRUE, shrinkText |-> FALSE]] >>

\* a faulty variant of BulletsArea: the box grows with the number of bullets
BulletsAreaGrowing(s) ==
    << [part |-> "bullets", kind |-> "text",
        content |-> BulletRuns(Get(s.bullets)),
        x |-> textX, y |-> contentY, w |-> textWidth,
        h |-> 700 * (1 + Len(Get(s.bullets))),
        opts |-> [fontSize |-> 16, bold |-> FALSE, align |-> "right",
                  rtl |-> TRUE, shrinkText |-> TRUE]] >>

\* slide.addText(bullets, ...)
BulletsArea(s) ==
    << [part |-> "bullets", kind |-> "text",
        content |-> BulletRuns(Get(s.bullets)),
        x |-> textX, y |-> contentY, w |-> textWidth, h |-> contentHeight,
        opts |-> [fontSize |-> 16, bold |-> FALSE, align |-> "right",
                  rtl |-> TRUE, shrinkText |-> TRUE]] >>

\* s.examples.map(e => ({ text: e, options: {... bullet: {type:'number'} } }))
ExampleRuns(examples) ==
    [i \in 1..Len(examples) |->
        [text |-> examples[i], bullet |-> "number", rtl |-> TRUE,
         align |-> "right"]]

\* a faulty variant of ExamplesArea: the length of examples is not tested
ExamplesAreaAnyLength(s) ==
    IF IsSome(s.examples)
    THEN << [part |-> "examplesLabel", kind |-> "text",
             content |-> ExamplesLabel,
             x |-> MARGIN, y |-> examplesY, w |-> textWidth, h |-> 300,
             opts |-> [fontSize |-> 14, bold |-> TRUE, align |-> "right",
                       rtl |-> TRUE, shrinkText |-> FALSE]],
            [part |-> "examplesList", kind |-> "text",
             content |-> ExampleRuns(Get(s.examples)),
             x |-> MARGIN, y |-> examplesY + 300,
             w |-> SLIDE_WIDTH - (MARGIN * 2), h |-> examplesHeight - 300,
             opts |-> [fontSize |-> 14, bold |-> FALSE, align |-> "right",
                       rtl |-> TRUE, shrinkText |-> TRUE]] >>
    ELSE << >>

\* if (s.examples && s.examples.length > 0): the label, then the list
ExamplesArea(s) ==
    IF IsSome(s.examples) /\ Len(Get(s.examples)) > 0
    THEN << [part |-> "examplesLabel", kind |-> "text",
             content |-> ExamplesLabel,
             x |-> MARGIN, y |-> examplesY, w |-> textWidth, h |-> 300,
             opts |-> [fontSize |-> 14, bold |-> TRUE, align |-> "right",
                       rtl |-> TRUE, shrinkText |-> FALSE]],
            [part |-> "examplesList", kind |-> "text",
             content |-> ExampleRuns(Get(s.examples)),
             x |-> MARGIN, y |-> examplesY + 300,
             w |-> SLIDE_WIDTH - (MARGIN * 2), h |-> examplesHeight - 300,
             opts |-> [fontSize |-> 14, bold |-> FALSE, align |-> "right",
                       rtl |-> TRUE, shrinkText |-> TRUE]] >>
    ELSE << >>

\* if (s.speakerNotes) slide.addNotes(s.speakerNotes)
SlideNotes(s) == IF s.speakerNotes # "" THEN Some(s.speakerNotes) ELSE None

\* a faulty variant of ContentSlide: the notes are also put on the slide
ContentSlideShowingNotes(s) ==
    [background |-> "FFFFFF",
     elements |-> TitleArea(s) \o ImageArea(s) \o BulletsArea(s)
                  \o ExamplesArea(s)
                  \o (IF s.speakerNotes # ""
                      THEN << [part |-> "notes", kind |-> "text",
                               content |-> s.speakerNotes,
                               x |-> MARGIN, y |-> examplesY, w |-> textWidth,
                               h |-> 300,
                               opts |-> [fontSize |-> 10, bold |-> FALSE,
                                         align |-> "right", rtl |-> TRUE,
                                         shrinkText |-> FALSE]] >>
                      ELSE << >>),
     notes |-> SlideNotes(s)]

\* the body of slidesWithImages.forEach: one content slide
ContentSlide(s) ==
    [background |-> "FFFFFF",
     elements |-> TitleArea(s) \o ImageArea(s) \o BulletsArea(s)
                  \o ExamplesArea(s),
     notes |-> SlideNotes(s)]

\* s.bullets.map throws a TypeError when a record has no bullets
BuildThrows(slides) == \E i \in 1..Len(slides) : ~IsSome(slides[i].bullets)

\* a faulty variant of BuildPptx: each content slide is put before the
\* earlier ones
BuildPptxNewestFirst(title, slides) ==
    [rtlMode |-> TRUE, layout |-> "LAYOUT_16x9",
     slides |-> <<TitleSlide(title)>>
                \o [i \in 1..Len(slides) |->
                       ContentSlide(slides[Len(slides) + 1 - i])]]

\* the deck: the title slide, then one slide per entry of slidesWithImages
BuildPptx(title, slides) ==
    [rtlMode |-> TRUE, layout |-> "LAYOUT_16x9",
     slides |-> <<TitleSlide(title)>>
                \o [i \in 1..Len(slides) |-> ContentSlide(slides[i])]]

----------------------------------------------------------------------------
(* The file name *)

LatinLower == {"a", "b", "c", "d", "e", "f", "g", "h", "i", "j", "k", "l", "m",
               "n", "o", "p", "q", "r", "s", "t", "u", "v", "w", "x", "y", "z"}
LatinUpper == {"A", "B", "C", "D", "E", "F", "G", "H", "I", "J", "K", "L", "M",
               "N", "O", "P", "Q", "R", "S", "T", "U", "V", "W", "X", "Y", "Z"}

\* String.prototype.toLowerCase on one character
ToLowerChar(c) ==
    CASE c = "A" -> "a" [] c = "B" -> "b" [] c = "C" -> "c" [] c = "D" -> "d"
      [] c = "E" -> "e" [] c = "F" -> "f" [] c = "G" -> "g" [] c = "H" -> "h"
      [] c = "I" -> "i" [] c = "J" -> "j" [] c = "K" -> "k" [] c = "L" -> "l"
      [] c = "M" -> "m" [] c = "N" -> "n" [] c = "O" -> "o" [] c = "P" -> "p"
      [] c = "Q" -> "q" [] c = "R" -> "r" [] c = "S" -> "s" [] c = "T" -> "t"
      [] c = "U" -> "u" [] c = "V" -> "v" [] c = "W" -> "w" [] c = "X" -> "x"
      [] c = "Y" -> "y" [] c = "Z" -> "z" [] OTHER -> c

\* a character the pattern [^a-z0-9] with flags gi does not match
IsAlnum(c) == c \in LatinLower \cup LatinUpper \cup DecDigits

\* a faulty variant of ReplaceNonAlnum: the characters are deleted
DeleteNonAlnum(title) == SelectSeq(title, IsAlnum)

\* title.replace(/[^a-z0-9]/gi, '_')
ReplaceNonAlnum(title) ==
    [i \in 1..Len(title) |-> IF IsAlnum(title[i]) THEN title[i] ELSE "_"]

ToLowerCase(str) == [i \in 1..Len(str) |-> ToLowerChar(str[i])]

Extension == <<".", "p", "p", "t", "x">>

\* `${data.title.replace(/[^a-z0-9]/gi, '_').toLowerCase()}.pptx`
FileName(title) == ToLowerCase(ReplaceNonAlnum(title)) \o Extension

----------------------------------------------------------------------------
(* What the remote service may return, and what the user may type *)

Lists == SeqsUpTo(Texts, MaxItems)

\* a slide record of PresentationData; bullets and examples may be missing
\* from the JSON the service returns
SlideRecord(title, bullets, examples, imageDescription, speakerNotes) ==
    [title |-> title, bullets |-> bullets, examples |-> examples,
     imageDescription |-> imageDescription, speakerNotes |-> speakerNotes]

\* every slide record with bullets
SlideRecords ==
    {SlideRecord("slide", Some(b), e, d, n) :
        b \in Lists, e \in {None} \cup {Some(l) : l \in Lists},
        d \in {"", "draw"}, n \in {"", "notes"}}

\* three records that differ in every field
SampleSlides ==
    {SlideRecord("one", Some(<<"p", "q">>), Some(<<"q", "p">>), "draw",
                 "notes"),
     SlideRecord("two", Some(<<"q">>), Some(<<>>), "draw", ""),
     SlideRecord("three", Some(<<>>), None, "", "")}

\* a record the service sent without its bullets
NoBulletsSlide == SlideRecord("four", None, Some(<<"p">>), "draw", "")

PresentationData(title, slides) == [title |-> title, slides |-> slides]

SampleTitle == <<"A", "b">>

\* the records of the flow: described, not described, without bullets
FlowSlides ==
    {r \in SampleSlides : r.title \in {"one", "three"}} \cup {NoBulletsSlide}

\* decks of the flow: those records in any order, or no slides field at all
FlowDecks ==
    {PresentationData(SampleTitle, None)}
    \cup {PresentationData(SampleTitle, Some(sl)) :
            sl \in SeqsUpTo(FlowSlides, MaxSlides)}

\* decks of the assembly: every single record, and the sample records in
\* any order
AssemblyDecks ==
    {PresentationData(SampleTitle, Some(<<r>>)) : r \in SlideRecords}
    \cup {PresentationData(SampleTitle, Some(sl)) :
            sl \in SeqsUpTo(SampleSlides, MaxSlides)}

\* decks of the file name: every title, no slide
TitleDecks ==
    {PresentationData(t, Some(<<>>)) : t \in SeqsUpTo(TitleChars, MaxTitleLen)}

Topics == {<<"a">>}
CountInputs == SeqsUpTo(InputChars, MaxInputLen)

\* what the user types: a topic when asked for one, anything when asked
\* for the number of slides
InputsAt(step) == IF step = "COUNT" THEN CountInputs ELSE Topics

\* a topic, a rejected count and an accepted one
SampleInputs == {<<"a">>, <<"2">>}

----------------------------------------------------------------------------
(* Messages and requests *)

Message(sender, kind, text, n) ==
    [sender |-> sender, kind |-> kind, text |-> text, n |-> n]

Greeting == Message(AI, "greeting", <<>>, 0)
UserMessage(input) == Message(USER, "user", input, 0)
AskCount(topic) == Message(AI, "askCount", topic, 0)
InvalidCount == Message(AI, "invalidCount", <<>>, 0)
Starting(topic, count) == Message(AI, "starting", topic, count)
Success(title, n) == Message(AI, "success", title, n)
Failure == Message(AI, "error", <<>>, 0)

\* the messages of handleStandardFlow and handleFileUpload
Reply == Message(AI, "reply", <<>>, 0)
Visual == Message(AI, "visual", <<>>, 0)
NoVisual == Message(AI, "noVisual", <<>>, 0)
StandardError == Message(AI, "standardError", <<>>, 0)
UploadMessage == Message(USER, "upload", <<>>, 0)
UploadError == Message(AI, "uploadError", <<>>, 0)

\* the requests of the presentation flow, as logged in requests
ContentRequest(topic, count) ==
    [fn |-> "generatePresentationContent", model |-> "gemini-2.5-flash",
     topic |-> topic, count |-> count, slide |-> 0]
ImageRequest(model, slide) ==
    [fn |-> "generateSlideImage", model |-> model, topic |-> <<>>,
     count |-> 0, slide |-> slide]

\* a faulty variant of addMessage: the message goes to the view on screen
addMessageToCurrentView(log, viewId, msg) ==
    [log EXCEPT ![view] = Append(log[view], msg)]

\* setMessages(prev => ({...prev, [viewId]: [...prev[viewId], msg]}))
addMessage(log, viewId, msg) ==
    [log EXCEPT ![viewId] = Append(log[viewId], msg)]

----------------------------------------------------------------------------
(* The ids of messages *)

DigitChar(d) ==
    CASE d = 0 -> "0" [] d = 1 -> "1" [] d = 2 -> "2" [] d = 3 -> "3"
      [] d = 4 -> "4" [] d = 5 -> "5" [] d = 6 -> "6" [] d = 7 -> "7"
      [] d = 8 -> "8" [] d = 9 -> "9"

RECURSIVE IdString(_)
\* Number.prototype.toString of a natural number: its decimal digits
IdString(n) ==
    IF n < 10 THEN <<DigitChar(n)>>
    ELSE Append(IdString(n \div 10), DigitChar(n % 10))

\* the id a handler gives a message it creates at millisecond t:
\* (Date.now() + 1).toString() for the messages of the AI in
\* handleStandardFlow and handleFileUpload, Date.now().toString() for all
\* others
IdOf(msg, t) ==
    IF msg.kind \in {"reply", "visual", "noVisual", "standardError",
                     "uploadError"}
    THEN IdString(t + 1) ELSE IdString(t)

\* every message a step appends gets its id; the synchronous part of a
\* handler runs within one millisecond
StampIds ==
    /\ ids' = [v \in ViewState |->
                 ids[v] \o [k \in 1..(Len(messages'[v]) - Len(messages[v])) |->
                              IdOf(messages'[v][Len(messages[v]) + k], now)]]
    /\ UNCHANGED now

----------------------------------------------------------------------------
(* The state after construction *)

Init ==
    /\ view = "TUTOR"
    /\ presentationStep = "TOPIC"
    /\ presentationTopic = <<>>
    /\ messages = [v \in ViewState |-> <<Greeting>>]
    /\ isLoading = FALSE
    /\ pc = "idle"
    /\ data = None
    /\ slidesWithImages = <<>>
    /\ pres = None
    /\ fileName = None
    /\ requests = <<>>
    /\ exported = <<>>
    /\ standard = <<>>
    \* some millisecond after 1; every greeting has the id '1'
    /\ now = 2
    /\ ids = [v \in ViewState |-> <<IdString(1)>>]

----------------------------------------------------------------------------
(* Navigation: setView, and the effect that runs when the view changed *)

\* a faulty variant of SetView: the step is reset whatever the log holds
SetViewAlwaysResets(v) ==
    /\ v # view
    /\ view' = v
    /\ presentationStep' =
          IF v = "PRESENTATION" THEN "TOPIC" ELSE presentationStep
    /\ UNCHANGED <<presentationTopic, messages, isLoading, pc, data,
                   slidesWithImages, pres, fileName, requests, exported,
                   standard>>
    /\ StampIds

SetView(v) ==
    /\ v # view
    /\ view' = v
    /\ presentationStep' =
          IF v = "PRESENTATION" /\ Len(messages["PRESENTATION"]) <= 1
          THEN "TOPIC" ELSE presentationStep
    /\ UNCHANGED <<presentationTopic, messages, isLoading, pc, data,
                   slidesWithImages, pres, fileName, requests, exported,
                   standard>>
    /\ StampIds

----------------------------------------------------------------------------
(* handlePresentationFlow *)

\* a faulty variant of Catch: the step is left as it is
CatchKeepsStep(log) ==
    /\ messages' = addMessage(log, "PRESENTATION", Failure)
    /\ UNCHANGED presentationStep
    /\ isLoading' = FALSE
    /\ pc' = "idle"

\* catch: the error message, back to TOPIC; finally: not loading
Catch(log) ==
    /\ messages' = addMessage(log, "PRESENTATION", Failure)
    /\ presentationStep' = "TOPIC"
    /\ isLoading' = FALSE
    /\ pc' = "idle"

RECURSIVE NextDescribed(_, _)
\* the first slide from i on that has an imageDescription, or Len + 1
NextDescribed(slides, i) ==
    IF i > Len(slides) \/ slides[i].imageDescription # "" THEN i
    ELSE NextDescribed(slides, i + 1)

\* slidesWithImages.push({ ...slide, imageBase64 })
WithImage(slide, imageBase64) ==
    [title |-> slide.title, bullets |-> slide.bullets,
     examples |-> slide.examples,
     imageDescription |-> slide.imageDescription,
     speakerNotes |-> slide.speakerNotes, imageBase64 |-> imageBase64]

\* slides from..to-1 have no description: each is pushed with null
PushUndescribed(swi, slides, to) ==
    swi \o [k \in 1..(to - 1 - Len(swi)) |->
               WithImage(slides[Len(swi) + k], NullImage)]

\* The loop over data.slides from the slide after those in swi, up to the
\* next await: the request for the next described slide, or, past the last
\* slide, the deck, its file name and pres.writeFile.
RunLoop(swi) ==
    LET slides == Get(Get(data').slides)
        next   == NextDescribed(slides, Len(swi) + 1)
        pushed == PushUndescribed(swi, slides, next)
    IN  /\ slidesWithImages' = pushed
        /\ IF next <= Len(slides)
           THEN /\ requests' = Append(requests,
                        ImageRequest("gemini-3-pro-image-preview", next))
                /\ pc' = "image"
                /\ UNCHANGED <<messages, presentationStep, isLoading, pres,
                               fileName>>
           ELSE IF BuildThrows(pushed)
           THEN /\ Catch(messages)
                /\ UNCHANGED <<requests, pres, fileName>>
           ELSE /\ pres' = Some(BuildPptx(Get(data').title, pushed))
                /\ fileName' = Some(FileName(Get(data').title))
                /\ pc' = "write"
                /\ UNCHANGED <<messages, presentationStep, isLoading,
                               requests>>

\* handleSendMessage, by the send button or the Enter key, in the
\* presentation view: the user's message, then handlePresentationFlow up to
\* its first await
SendMessage(input) ==
    /\ view = "PRESENTATION"
    /\ Trim(input) # <<>>
    /\ Len(messages[view]) + 3 <= MaxLog
    /\ LET log == addMessage(messages, view, UserMessage(input))
           count == ParseInt(input)
       IN  CASE presentationStep = "TOPIC" ->
                  /\ presentationTopic' = input
                  /\ presentationStep' = "COUNT"
                  /\ messages' = addMessage(log, "PRESENTATION",
                                            AskCount(input))
                  /\ isLoading' = FALSE
                  /\ UNCHANGED <<pc, data, slidesWithImages, pres, fileName,
                                 requests>>
             [] presentationStep = "COUNT" /\ CountRejected(count) ->
                  /\ messages' = addMessage(log, "PRESENTATION", InvalidCount)
                  /\ isLoading' = FALSE
                  /\ UNCHANGED <<presentationTopic, presentationStep, pc,
                                 data, slidesWithImages, pres, fileName,
                                 requests>>
             [] presentationStep = "COUNT" /\ ~CountRejected(count) ->
                  /\ presentationStep' = "GENERATING"
                  /\ messages' = addMessage(log, "PRESENTATION",
                        Starting(presentationTopic, count.value))
                  /\ isLoading' = TRUE
                  /\ requests' = Append(requests,
                        ContentRequest(presentationTopic, count.value))
                  /\ pc' = "content"
                  /\ data' = None
                  /\ slidesWithImages' = <<>>
                  /\ pres' = None
                  /\ fileName' = None
                  /\ UNCHANGED presentationTopic
             [] presentationStep = "GENERATING" ->
                  /\ messages' = log
                  /\ isLoading' = FALSE
                  /\ UNCHANGED <<presentationTopic, presentationStep, pc,
                                 data, slidesWithImages, pres, fileName,
                                 requests>>
    /\ UNCHANGED <<view, exported, standard>>
    /\ StampIds

\* generatePresentationContent returns the parsed JSON
ContentReturns(d) ==
    /\ pc = "content"
    /\ data' = Some(d)
    /\ IF IsSome(d.slides)
       THEN RunLoop(<<>>)
       ELSE /\ Catch(messages)
            /\ UNCHANGED <<slidesWithImages, pres, fileName, requests>>
    /\ UNCHANGED <<view, presentationTopic, exported, standard>>
    /\ StampIds

\* generatePresentationContent throws (the request failed, or its text is
\* not JSON)
ContentFails ==
    /\ pc = "content"
    /\ Catch(messages)
    /\ UNCHANGED <<view, presentationTopic, data, slidesWithImages, pres,
                   fileName, requests, exported, standard>>
    /\ StampIds

\* generateSlideImage returned imageBase64 for the slide after those pushed
ImageDone(imageBase64) ==
    /\ data' = data
    /\ RunLoop(Append(slidesWithImages,
          WithImage(Get(Get(data).slides)[Len(slidesWithImages) + 1],
                    imageBase64)))
    /\ UNCHANGED <<view, presentationTopic, exported, standard>>

\* extractImageFromResponse: the first inline part, or null
extractImageFromResponse(hasInlineData) ==
    IF hasInlineData THEN DataUrl ELSE NullImage

\* the first request of generateSlideImage is answered
ImageResponds(hasInlineData) ==
    /\ pc = "image"
    /\ ImageDone(extractImageFromResponse(hasInlineData))
    /\ StampIds

\* a faulty variant of ImageFails: an error that is not a denial is thrown
\* again, as generateMathVisual does, and ends the generation
ImageFailsRethrows(denied) ==
    /\ pc = "image"
    /\ IF denied
       THEN /\ requests' = Append(requests,
                  ImageRequest("gemini-2.5-flash-image",
                               Len(slidesWithImages) + 1))
            /\ pc' = "fallback"
            /\ UNCHANGED <<view, presentationStep, presentationTopic,
                           messages, isLoading, data, slidesWithImages, pres,
                           fileName, exported, standard>>
       ELSE /\ Catch(messages)
            /\ UNCHANGED <<view, presentationTopic, data, slidesWithImages,
                           pres, fileName, requests, exported, standard>>
    /\ StampIds

\* the first request fails: on 403, 404 or PERMISSION_DENIED the other
\* model is asked, on any other error the result is null
ImageFails(denied) ==
    /\ pc = "image"
    /\ IF denied
       THEN /\ requests' = Append(requests,
                  ImageRequest("gemini-2.5-flash-image",
                               Len(slidesWithImages) + 1))
            /\ pc' = "fallback"
            /\ UNCHANGED <<view, presentationStep, presentationTopic,
                           messages, isLoading, data, slidesWithImages, pres,
                           fileName, exported, standard>>
       ELSE ImageDone(NullImage)
    /\ StampIds

\* the second request is answered
FallbackResponds(hasInlineData) ==
    /\ pc = "fallback"
    /\ ImageDone(extractImageFromResponse(hasInlineData))
    /\ StampIds

\* a faulty variant of FallbackFails: the other model is asked once more
FallbackFailsAsksAgain ==
    /\ pc = "fallback"
    /\ Len(requests) < 6
    /\ requests' = Append(requests,
          ImageRequest("gemini-2.5-flash-image", Len(slidesWithImages) + 1))
    /\ UNCHANGED <<view, presentationStep, presentationTopic, messages,
                   isLoading, pc, data, slidesWithImages, pres, fileName,
                   exported, standard>>
    /\ StampIds

\* the second request fails: null
FallbackFails ==
    /\ pc = "fallback"
    /\ ImageDone(NullImage)
    /\ StampIds

\* pres.writeFile resolved: the success message, back to TOPIC
WriteDone ==
    /\ pc = "write"
    /\ exported' = Append(exported,
                          [fileName |-> Get(fileName), pres |-> Get(pres)])
    /\ messages' = addMessage(messages, "PRESENTATION",
                      Success(Get(data).title, Len(slidesWithImages)))
    /\ presentationStep' = "TOPIC"
    /\ presentationTopic' = <<>>
    /\ isLoading' = FALSE
    /\ pc' = "idle"
    /\ UNCHANGED <<view, data, slidesWithImages, pres, fileName, requests,
                   standard>>
    /\ StampIds

\* pres.writeFile rejected
WriteFails ==
    /\ pc = "write"
    /\ Catch(messages)
    /\ UNCHANGED <<view, presentationTopic, data, slidesWithImages, pres,
                   fileName, requests, exported, standard>>
    /\ StampIds

----------------------------------------------------------------------------
(* handleStandardFlow and handleFileUpload.  A call under way is          *)
(* [view, flow, stage]: the view of its closure, "send" or "upload", and  *)
(* the await it is at ("encode" is fileToBase64, "call" the remote        *)
(* request, "fallback" the second request of generateMathVisual); an      *)
(* entry at "call" or "fallback" is a request in flight.                  *)

RemoveAt(seq, k) == SubSeq(seq, 1, k - 1) \o SubSeq(seq, k + 1, Len(seq))

\* handleSendMessage in a view other than the presentation view: the
\* user's message, then handleStandardFlow up to its await
SendStandard(input) ==
    /\ view # "PRESENTATION"
    /\ Trim(input) # <<>>
    /\ Len(messages[view]) + 2 <= MaxChat
    /\ Len(standard) < MaxInFlight
    /\ messages' = addMessage(messages, view, UserMessage(input))
    /\ isLoading' = TRUE
    /\ standard' = Append(standard,
          [view |-> view, flow |-> "send", stage |-> "call"])
    /\ UNCHANGED <<view, presentationStep, presentationTopic, pc, data,
                   slidesWithImages, pres, fileName, requests, exported>>
    /\ StampIds

\* the end of a call: its last message, to the view of its closure, and
\* finally setIsLoading(false)
StandardEnds(k, msg) ==
    /\ messages' = addMessage(messages, standard[k].view, msg)
    /\ isLoading' = FALSE
    /\ standard' = RemoveAt(standard, k)
    /\ UNCHANGED <<view, presentationStep, presentationTopic, pc, data,
                   slidesWithImages, pres, fileName, requests, exported>>

\* the remote request of call k is answered
StandardResponds(k, hasResult) ==
    /\ k \in 1..Len(standard)
    /\ standard[k].stage \in {"call", "fallback"}
    /\ StandardEnds(k,
          IF standard[k].flow = "send" /\ standard[k].view = "VISUALIZER"
          THEN (IF hasResult THEN Visual ELSE NoVisual)
          ELSE Reply)
    /\ StampIds

\* the remote request of call k fails: generateMathVisual asks the other
\* model after a denial, every other failure is caught by the handler
StandardFails(k, denied) ==
    /\ k \in 1..Len(standard)
    /\ standard[k].stage \in {"call", "fallback"}
    /\ IF /\ standard[k].flow = "send"
          /\ standard[k].view = "VISUALIZER"
          /\ standard[k].stage = "call"
          /\ denied
       THEN /\ standard' = [standard EXCEPT ![k].stage = "fallback"]
            /\ UNCHANGED <<view, presentationStep, presentationTopic,
                           messages, isLoading, pc, data, slidesWithImages,
                           pres, fileName, requests, exported>>
       ELSE StandardEnds(k, IF standard[k].flow = "upload"
                            THEN UploadError ELSE StandardError)
    /\ StampIds

\* handleFileUpload, from the file input of the solver view, up to
\* fileToBase64
UploadFile ==
    /\ view = "SOLVER"
    /\ Len(messages[view]) + 2 <= MaxChat
    /\ Len(standard) < MaxInFlight
    /\ isLoading' = TRUE
    /\ standard' = Append(standard,
          [view |-> view, flow |-> "upload", stage |-> "encode"])
    /\ UNCHANGED <<view, presentationStep, presentationTopic, messages, pc,
                   data, slidesWithImages, pres, fileName, requests,
                   exported>>
    /\ StampIds

\* fileToBase64 resolved: the user's image message, then solveMathProblem
EncodeDone(k) ==
    /\ k \in 1..Len(standard)
    /\ standard[k].stage = "encode"
    /\ messages' = addMessage(messages, standard[k].view, UploadMessage)
    /\ standard' = [standard EXCEPT ![k].stage = "call"]
    /\ UNCHANGED <<view, presentationStep, presentationTopic, isLoading, pc,
                   data, slidesWithImages, pres, fileName, requests,
                   exported>>
    /\ StampIds

\* fileToBase64 rejected
EncodeFails(k) ==
    /\ k \in 1..Len(standard)
    /\ standard[k].stage = "encode"
    /\ StandardEnds(k, UploadError)
    /\ StampIds

----------------------------------------------------------------------------
(* Specifications *)

\* the whole flow, with the sample inputs and the sample decks
Next ==
    \/ \E v \in ViewState : SetView(v)
    \/ \E input \in SampleInputs : SendMessage(input)
    \/ \E d \in FlowDecks : ContentReturns(d)
    \/ ContentFails
    \/ \E b \in BOOLEAN : ImageResponds(b)
    \/ \E b \in BOOLEAN : ImageFails(b)
    \/ \E b \in BOOLEAN : FallbackResponds(b)
    \/ FallbackFails
    \/ WriteDone
    \/ WriteFails

Spec == Init /\ [][Next]_vars

\* the prompts, over every input at the slide-count prompt
NextCount ==
    \/ SetView("PRESENTATION")
    \/ \E input \in InputsAt(presentationStep) : SendMessage(input)
    \/ ContentFails

SpecCount == Init /\ [][NextCount]_vars

\* one generation, over every slide record
NextAssemble ==
    \/ SetView("PRESENTATION")
    \/ \E input \in SampleInputs : SendMessage(input)
    \/ \E d \in AssemblyDecks : ContentReturns(d)
    \/ \E b \in BOOLEAN : ImageResponds(b)
    \/ WriteDone

SpecAssemble == Init /\ [][NextAssemble]_vars

\* one generation, over every deck title
NextFileName ==
    \/ SetView("PRESENTATION")
    \/ \E input \in SampleInputs : SendMessage(input)
    \/ \E d \in TitleDecks : ContentReturns(d)
    \/ WriteDone
    \/ WriteFails

SpecFileName == Init /\ [][NextFileName]_vars

\* the views the user visits: all but the explorer, where a send runs as
\* in the tutor
VisitedViews == ViewState \ {"EXPLORER"}

\* the views: sends and uploads while a generation that fails is under way
NextViews ==
    \/ \E v \in VisitedViews : SetView(v)
    \/ \E input \in SampleInputs : SendMessage(input)
    \/ ContentFails
    \/ \E input \in Topics : SendStandard(input)
    \/ \E k \in 1..MaxInFlight, b \in BOOLEAN : StandardResponds(k, b)
    \/ \E k \in 1..MaxInFlight, b \in BOOLEAN : StandardFails(k, b)
    \/ UploadFile
    \/ \E k \in 1..MaxInFlight : EncodeDone(k)
    \/ \E k \in 1..MaxInFlight : EncodeFails(k)

SpecViews == Init /\ [][NextViews]_vars

\* the whole flow, where every request and pres.writeFile is answered or
\* fails in the end
RemoteCallEnds ==
    \/ \E d \in FlowDecks : ContentReturns(d)
    \/ ContentFails
    \/ \E b \in BOOLEAN : ImageResponds(b)
    \/ \E b \in BOOLEAN : ImageFails(b)
    \/ \E b \in BOOLEAN : FallbackResponds(b)
    \/ FallbackFails
    \/ WriteDone
    \/ WriteFails

\* the clock: a millisecond passes
Tick ==
    /\ now < MaxClock
    /\ now' = now + 1
    /\ UNCHANGED <<view, presentationStep, presentationTopic, messages,
                   isLoading, pc, data, slidesWithImages, pres, fileName,
                   requests, exported, standard, ids>>

\* the ids: sends in the tutor and in the presentation view, as the clock
\* goes on
NextIds ==
    \/ \E v \in {"TUTOR", "PRESENTATION"} : SetView(v)
    \/ \E input \in SampleInputs : SendMessage(input)
    \/ ContentFails
    \/ \E input \in Topics : SendStandard(input)
    \/ \E k \in 1..MaxInFlight, b \in BOOLEAN : StandardResponds(k, b)
    \/ Tick

SpecIds == Init /\ [][NextIds]_vars

SpecLive == Init /\ [][Next]_vars /\ WF_vars(RemoteCallEnds)

----------------------------------------------------------------------------
(* What the claims speak of *)

Log == messages["PRESENTATION"]
LastMessage == Log[Len(Log)]

\* an optional sign and then decimal digits only, white space around it
\* aside
IsIntegerLiteral(str) ==
    LET t == Trim(str)
        u == IF t # <<>> /\ Head(t) \in {"-", "+"} THEN Tail(t) ELSE t
    IN  u # <<>> /\ \A i \in 1..Len(u) : u[i] \in DecDigits

IntegerValue(str) ==
    LET t == Trim(str)
        u == IF Head(t) \in {"-", "+"} THEN Tail(t) ELSE t
    IN  (IF Head(t) = "-" THEN -1 ELSE 1) * DigitsValue(u, 10)

\* the input denotes an integer in 1..20
DenotesSlideCount(str) ==
    IsIntegerLiteral(str) /\ IntegerValue(str) \in 1..20

\* the requests of the generation under way, or of the last one
RECURSIVE LastContentRequest(_)
LastContentRequest(n) ==
    IF n = 0 \/ requests[n].fn = "generatePresentationContent" THEN n
    ELSE LastContentRequest(n - 1)

CurrentRequests ==
    SubSeq(requests, LastContentRequest(Len(requests)) + 1, Len(requests))

\* how many illustration requests the generation made for slide i
ImageRequestsFor(i) ==
    Cardinality({k \in 1..Len(CurrentRequests) :
                    /\ CurrentRequests[k].fn = "generateSlideImage"
                    /\ CurrentRequests[k].slide = i})

HasSlides == IsSome(data) /\ IsSome(Get(data).slides)
Slides == Get(Get(data).slides)

\* the parts of a slide, in the order they were added
Parts(slide) == [k \in 1..Len(slide.elements) |-> slide.elements[k].part]

\* the elements of a slide that some call site added
PartsOf(slide, parts) ==
    SelectSeq(slide.elements, LAMBDA e : e.part \in parts)

Box(e) == <<e.x, e.y, e.w, e.h>>

\* the texts of a list element, in order
RunTexts(e) == [k \in 1..Len(e.content) |-> e.content[k].text]

----------------------------------------------------------------------------
(* C1: at step COUNT an input is accepted only if it denotes an integer   *)
(* in 1..20; any other input is answered by the rejection message, starts *)
(* no request and leaves the flow at COUNT.                               *)
C1_AcceptedOnlySlideCounts ==
    /\ \A i \in 2..Len(Log) :
          Log[i].kind = "starting" => DenotesSlideCount(Log[i - 1].text)
    /\ LastMessage.kind = "invalidCount" =>
          /\ presentationStep = "COUNT"
          /\ pc = "idle"
          /\ ~isLoading

----------------------------------------------------------------------------
(* C2: an illustration that fails or comes back empty never ends the      *)
(* generation: the loop goes on to request the illustration of every      *)
(* later described slide, the slide gets the placeholder, and the deck    *)
(* handed to writeFile has one content slide per record.                  *)
C2_IllustrationFailureKeepsDeck ==
    HasSlides =>
        /\ Len(slidesWithImages) <= Len(Slides)
        /\ \A i \in 1..Len(slidesWithImages) :
              slidesWithImages[i]
                 = WithImage(Slides[i], slidesWithImages[i].imageBase64)
        /\ \A i \in 1..Len(Slides) :
              /\ Slides[i].imageDescription # ""
              /\ \/ i <= Len(slidesWithImages)
                 \/ i = Len(slidesWithImages) + 1 /\ pc \in {"image", "fallback"}
              => ImageRequestsFor(i) >= 1
        /\ pc \in {"image", "fallback"} => Len(slidesWithImages) < Len(Slides)
        /\ pc \in {"write", "idle"} => Len(slidesWithImages) = Len(Slides)
        /\ pc = "idle" /\ LastMessage = Failure
              /\ ~BuildThrows(slidesWithImages) => IsSome(pres)
        /\ IsSome(pres) =>
              /\ Len(Get(pres).slides) = 1 + Len(Slides)
              /\ \A i \in 1..Len(Slides) :
                    ~Truthy(slidesWithImages[i].imageBase64) =>
                       PartsOf(Get(pres).slides[i + 1],
                               {"image", "placeholder", "caption"})
                          = ImageArea(WithImage(Slides[i], NullImage))
        /\ pc = "idle" /\ LastMessage.kind = "success" =>
              /\ exported # <<>>
              /\ exported[Len(exported)].pres = Get(pres)

\* the first slide's two requests both failed, the second slide was still
\* requested, and the deck of three slides was written
C2_Witness ==
    /\ HasSlides
    /\ pc = "idle"
    /\ LastMessage.kind = "success"
    /\ Len(Slides) = 2
    /\ ImageRequestsFor(1) = 2
    /\ slidesWithImages[1].imageBase64 = NullImage
    /\ ImageRequestsFor(2) >= 1
    /\ Len(exported) = 1
    /\ Len(exported[1].pres.slides) = 3
    /\ Parts(exported[1].pres.slides[2])[2] = "placeholder"

----------------------------------------------------------------------------
(* The deck handed to writeFile, slide by slide *)

Deck == Get(pres)
\* the content slide built from slidesWithImages[i]
ContentSlideAt(i) == Deck.slides[i + 1]

ImageColumn == {"image", "placeholder", "caption"}

\* the elements of a slide that the given call sites did not add
PartsOutside(slide, parts) ==
    SelectSeq(slide.elements, LAMBDA e : e.part \notin parts)

The(slide, part) == PartsOf(slide, {part})[1]

HasExamples(s) == IsSome(s.examples) /\ Get(s.examples) # <<>>

\* the same record with the illustration there if it is not, and not there
\* if it is
Toggled(s) ==
    WithImage(s, IF Truthy(s.imageBase64) THEN NullImage ELSE DataUrl)

----------------------------------------------------------------------------
(* C3: the image column has the same box whether the illustration is     *)
(* there (one image) or not (the placeholder and its caption), and every *)
(* other element of the slide, and its notes, are the same either way.   *)
C3_PlaceholderParity ==
    IsSome(pres) =>
        \A i \in 1..Len(slidesWithImages) :
            LET s     == slidesWithImages[i]
                here  == PartsOf(ContentSlideAt(i), ImageColumn)
                other == ContentSlide(Toggled(s))
                there == PartsOf(other, ImageColumn)
            IN  /\ Parts([elements |-> here])
                      = IF Truthy(s.imageBase64) THEN <<"image">>
                        ELSE <<"placeholder", "caption">>
                /\ Parts([elements |-> there])
                      = IF Truthy(s.imageBase64)
                        THEN <<"placeholder", "caption">> ELSE <<"image">>
                /\ \A a \in 1..Len(here), b \in 1..Len(there) :
                      Box(here[a]) = Box(there[b])
                /\ PartsOutside(ContentSlideAt(i), ImageColumn)
                      = PartsOutside(other, ImageColumn)
                /\ ContentSlideAt(i).notes = other.notes

\* a deck with an illustrated slide and one whose request gave no image
C3_Witness ==
    /\ IsSome(pres)
    /\ Len(slidesWithImages) = 2
    /\ Truthy(slidesWithImages[1].imageBase64)
    /\ slidesWithImages[2].imageDescription # ""
    /\ ~Truthy(slidesWithImages[2].imageBase64)
    /\ Parts(ContentSlideAt(1))[2] = "image"
    /\ Parts(ContentSlideAt(2))[2] = "placeholder"

----------------------------------------------------------------------------
(* C4: a record without examples, or with an empty list, puts nothing    *)
(* below the content region; a record with examples puts exactly the     *)
(* label and then the numbered list of all its examples there.           *)
C4_ExamplesBand ==
    IsSome(pres) =>
        \A i \in 1..Len(slidesWithImages) :
            LET s     == slidesWithImages[i]
                slide == ContentSlideAt(i)
                n     == Len(slide.elements)
                band  == SelectSeq(slide.elements,
                            LAMBDA e : e.y >= contentY + contentHeight)
            IN  /\ band = PartsOf(slide, {"examplesLabel", "examplesList"})
                /\ IF HasExamples(s)
                   THEN /\ Len(band) = 2
                        /\ band = SubSeq(slide.elements, n - 1, n)
                        /\ band[1].part = "examplesLabel"
                        /\ band[1].content = ExamplesLabel
                        /\ band[2].part = "examplesList"
                        /\ RunTexts(band[2]) = Get(s.examples)
                        /\ \A k \in 1..Len(band[2].content) :
                              band[2].content[k].bullet = "number"
                   ELSE band = <<>>

\* a deck with a slide that has examples and one whose list is empty
C4_Witness ==
    /\ IsSome(pres)
    /\ Len(slidesWithImages) = 2
    /\ HasExamples(slidesWithImages[1])
    /\ slidesWithImages[2].examples = Some(<<>>)
    /\ Len(ContentSlideAt(1).elements) = Len(ContentSlideAt(2).elements) + 2

----------------------------------------------------------------------------
(* C5: the deck is the title slide and then one content slide per        *)
(* record, in the order of the records; a slide lists its bullets, and   *)
(* its examples, in the order of the record.                             *)
C5_OrderPreserved ==
    IsSome(pres) =>
        /\ Len(Deck.slides) = 1 + Len(Slides)
        /\ Parts(Deck.slides[1]) = <<"deckTitle", "attribution">>
        /\ Deck.slides[1].elements[1].content = Get(data).title
        /\ \A i \in 1..Len(Slides) :
              LET slide == ContentSlideAt(i)
              IN  /\ Len(PartsOf(slide, {"title"})) = 1
                  /\ The(slide, "title").content = Slides[i].title
                  /\ Len(PartsOf(slide, {"bullets"})) = 1
                  /\ RunTexts(The(slide, "bullets")) = Get(Slides[i].bullets)
                  /\ HasExamples(Slides[i]) =>
                        RunTexts(The(slide, "examplesList"))
                           = Get(Slides[i].examples)
        /\ pc = "idle" /\ LastMessage.kind = "success" =>
              exported[Len(exported)].pres = Deck

\* a written deck of two different records, the first with two bullets
\* and two examples
C5_Witness ==
    /\ pc = "idle"
    /\ Len(exported) = 1
    /\ Len(exported[1].pres.slides) = 3
    /\ Slides[1] # Slides[2]
    /\ Get(Slides[1].bullets) = <<"p", "q">>
    /\ Get(Slides[1].examples) = <<"q", "p">>
    /\ Slides[2].title = "three"

----------------------------------------------------------------------------
(* C6: a record with examples whose illustration is there gives exactly  *)
(* five elements: the title, the image (contain, in a box imageWidth by  *)
(* contentHeight), the bullets, the examples label and the examples      *)
(* list; its notes are attached to the slide and are no element.         *)
C6_FiveElements ==
    IsSome(pres) =>
        \A i \in 1..Len(slidesWithImages) :
            LET s     == slidesWithImages[i]
                slide == ContentSlideAt(i)
            IN  HasExamples(s) /\ Truthy(s.imageBase64) =>
                  /\ Parts(slide) = <<"title", "image", "bullets",
                                      "examplesLabel", "examplesList">>
                  /\ [k \in 1..5 |-> slide.elements[k].kind]
                        = <<"text", "image", "text", "text", "text">>
                  /\ slide.elements[2].opts.sizing
                        = [type |-> "contain", w |-> imageWidth,
                           h |-> contentHeight]
                  /\ slide.elements[2].w = imageWidth
                  /\ slide.elements[2].h = contentHeight
                  /\ slide.notes = IF s.speakerNotes # ""
                                   THEN Some(s.speakerNotes) ELSE None

\* a slide with one example, its illustration and notes
C6_Witness ==
    /\ IsSome(pres)
    /\ Len(slidesWithImages) = 1
    /\ slidesWithImages[1].examples = Some(<<"p">>)
    /\ Truthy(slidesWithImages[1].imageBase64)
    /\ slidesWithImages[1].speakerNotes # ""
    /\ Len(ContentSlideAt(1).elements) = 5
    /\ IsSome(ContentSlideAt(1).notes)

----------------------------------------------------------------------------
(* The file written *)

Title == Get(data).title
BaseName == SubSeq(Get(fileName), 1, Len(Get(fileName)) - Len(Extension))
Suffix ==
    SubSeq(Get(fileName), Len(Get(fileName)) - Len(Extension) + 1,
           Len(Get(fileName)))

(* C7: the base name is the title without the characters that are not    *)
(* a-z, A-Z, 0-9: only such characters are in it, and a title with none  *)
(* of them gives the empty base name.                                    *)
C7_NonAlnumRemoved ==
    IsSome(fileName) =>
        /\ BaseName = SelectSeq(Title, IsAlnum)
        /\ \A k \in 1..Len(BaseName) : IsAlnum(BaseName[k])
        /\ (\A k \in 1..Len(Title) : ~IsAlnum(Title[k])) => BaseName = <<>>

(* C7 as amended: every character of the title that is not a-z, A-Z, 0-9 *)
(* becomes "_" and the others are lower-cased, so the base name is as    *)
(* long as the title and holds only a-z, 0-9 and "_"; it is empty only   *)
(* for the empty title.                                                  *)
C7_NonAlnumReplaced ==
    IsSome(fileName) =>
        /\ Suffix = Extension
        /\ Len(BaseName) = Len(Title)
        /\ \A k \in 1..Len(Title) :
              /\ BaseName[k] \in LatinLower \cup DecDigits \cup {"_"}
              /\ IsAlnum(Title[k]) => BaseName[k] = ToLowerChar(Title[k])
              /\ ~IsAlnum(Title[k]) => BaseName[k] = "_"
        /\ BaseName = <<>> <=> Title = <<>>

\* a title with an upper-case letter, an Arabic letter and a digit
C7_Witness ==
    /\ IsSome(fileName)
    /\ Title = <<"A", "U+0639", "7">>
    /\ BaseName = <<"a", "_", "7">>
    /\ pc = "write"

(* C8: the file name handed to writeFile never has an empty base name.   *)
C8_BaseNameNeverEmpty ==
    /\ IsSome(fileName) => BaseName # <<>>
    /\ \A k \in 1..Len(exported) : exported[k].fileName # Extension

----------------------------------------------------------------------------
(* C9: across a content slide, the image column starts at the margin,    *)
(* the gap lies between it and the text column, and the text column      *)
(* ends at the margin on the other side:                                 *)
(* imageWidth + gap + textWidth + 2 * MARGIN = SLIDE_WIDTH.              *)
C9_Columns ==
    IsSome(pres) =>
        \A i \in 1..Len(slidesWithImages) :
            LET column == PartsOf(ContentSlideAt(i), ImageColumn)
                text   == The(ContentSlideAt(i), "bullets")
            IN  \A k \in 1..Len(column) :
                  /\ column[k].x = MARGIN
                  /\ column[k].w = imageWidth
                  /\ column[k].w + gap + text.w + 2 * MARGIN = SLIDE_WIDTH
                  /\ text.w = SLIDE_WIDTH - 2 * MARGIN - column[k].w - gap
                  /\ text.x + text.w = SLIDE_WIDTH - MARGIN
                  /\ text.x - (column[k].x + column[k].w) = gap
                  /\ column[k].x + column[k].w <= text.x

\* a slide with its image beside two bullets, handed to writeFile
C9_Witness ==
    /\ pc = "write"
    /\ Len(slidesWithImages) = 1
    /\ Truthy(slidesWithImages[1].imageBase64)
    /\ Len(Get(slidesWithImages[1].bullets)) = 2
    /\ The(ContentSlideAt(1), "image").x = 500
    /\ The(ContentSlideAt(1), "bullets").x = 3900

----------------------------------------------------------------------------
(* C10: the label and the list of the examples are together as high as   *)
(* SLIDE_HEIGHT - contentHeight - the height of the title band - MARGIN. *)
C10_BandHeightFromTitleBand ==
    IsSome(pres) =>
        \A i \in 1..Len(slidesWithImages) :
            LET slide == ContentSlideAt(i)
            IN  HasExamples(slidesWithImages[i]) =>
                   The(slide, "examplesLabel").h + The(slide, "examplesList").h
                     = SLIDE_HEIGHT - The(slide, "bullets").h
                       - The(slide, "title").h - MARGIN

(* C10 as amended: the band starts 0.1 below the content region, the     *)
(* list follows the label, and the list ends at the bottom margin, so    *)
(* the two are together as high as                                       *)
(* SLIDE_HEIGHT - contentY - contentHeight - 0.1 - MARGIN.               *)
C10_BandHeightFromContentRegion ==
    IsSome(pres) =>
        \A i \in 1..Len(slidesWithImages) :
            LET slide  == ContentSlideAt(i)
                region == The(slide, "bullets")
            IN  HasExamples(slidesWithImages[i]) =>
                  LET label == The(slide, "examplesLabel")
                      list  == The(slide, "examplesList")
                  IN  /\ label.y = region.y + region.h + 100
                      /\ list.y = label.y + label.h
                      /\ list.y + list.h = SLIDE_HEIGHT - MARGIN
                      /\ label.h + list.h
                            = SLIDE_HEIGHT - region.y - region.h - 100
                              - MARGIN

\* a slide with two examples, its label 0.3 high and its list 0.825 high
C10_Witness ==
    /\ IsSome(pres)
    /\ Len(slidesWithImages) = 1
    /\ HasExamples(slidesWithImages[1])
    /\ Len(Get(slidesWithImages[1].examples)) = 2
    /\ The(ContentSlideAt(1), "examplesLabel").h = 300
    /\ The(ContentSlideAt(1), "examplesList").h = 825

----------------------------------------------------------------------------
(* C11: on a slide with examples, the label and the list are both        *)
(* right-to-left and right-aligned, start at the margin and are as wide  *)
(* as the slide between its margins, SLIDE_WIDTH - 2 * MARGIN.           *)
C11_ExamplesFullWidth ==
    IsSome(pres) =>
        \A i \in 1..Len(slidesWithImages) :
            HasExamples(slidesWithImages[i]) =>
                \A part \in {"examplesLabel", "examplesList"} :
                    LET e == The(ContentSlideAt(i), part)
                    IN  /\ e.opts.rtl
                        /\ e.opts.align = "right"
                        /\ e.x = MARGIN
                        /\ e.w = SLIDE_WIDTH - 2 * MARGIN

----------------------------------------------------------------------------
(* C12: down a content slide the title, the content region, the examples *)
(* label and the examples list follow one another without overlap, the   *)
(* list ends at the bottom margin or above it, contentHeight plus the    *)
(* height of the examples band plus MARGIN is at most SLIDE_HEIGHT, and  *)
(* the box of every element lies on the slide.                           *)
C12_BandsStacked ==
    IsSome(pres) =>
        \A i \in 1..Len(slidesWithImages) :
            LET slide  == ContentSlideAt(i)
                title  == The(slide, "title")
                region == PartsOf(slide, ImageColumn \cup {"bullets"})
            IN  /\ \A k \in 1..Len(region) :
                      /\ title.y + title.h <= region[k].y
                      /\ region[k].y + region[k].h <= examplesY
                /\ HasExamples(slidesWithImages[i]) =>
                      LET label == The(slide, "examplesLabel")
                          list  == The(slide, "examplesList")
                      IN  /\ \A k \in 1..Len(region) :
                                region[k].y + region[k].h <= label.y
                          /\ label.y + label.h <= list.y
                          /\ list.y + list.h <= SLIDE_HEIGHT - MARGIN
                          /\ contentHeight + (label.h + list.h) + MARGIN
                                <= SLIDE_HEIGHT
                /\ \A k \in 1..Len(slide.elements) :
                      LET e == slide.elements[k]
                      IN  /\ 0 <= e.x /\ e.w >= 0
                          /\ e.x + e.w <= SLIDE_WIDTH
                          /\ 0 <= e.y /\ e.h >= 0
                          /\ e.y + e.h <= SLIDE_HEIGHT

\* a slide with the placeholder, its caption, bullets and examples, whose
\* list ends at 5.125
C12_Witness ==
    /\ pc = "write"
    /\ Len(slidesWithImages) = 1
    /\ HasExamples(slidesWithImages[1])
    /\ Len(ContentSlideAt(1).elements) = 6
    /\ The(ContentSlideAt(1), "title").y + The(ContentSlideAt(1), "title").h
          = 1000
    /\ The(ContentSlideAt(1), "examplesList").y
          + The(ContentSlideAt(1), "examplesList").h = 5125

----------------------------------------------------------------------------
(* C13: the bullets of every content slide and the list of examples of   *)
(* every slide that has examples are text elements with shrinkText set   *)
(* and a box that does not depend on the strings; they hold every string *)
(* whole, however many and however long, and no string makes the         *)
(* assembly fail.                                                        *)
C13_ShrinkToFit ==
    /\ IsSome(pres) =>
          \A i \in 1..Len(slidesWithImages) :
              LET s       == slidesWithImages[i]
                  slide   == ContentSlideAt(i)
                  bullets == The(slide, "bullets")
              IN  /\ Len(PartsOf(slide, {"bullets"})) = 1
                  /\ bullets.opts.shrinkText
                  /\ Box(bullets)
                        = <<textX, contentY, textWidth, contentHeight>>
                  /\ RunTexts(bullets) = Get(s.bullets)
                  /\ HasExamples(s) =>
                        LET list == The(slide, "examplesList")
                        IN  /\ list.opts.shrinkText
                            /\ Box(list)
                                  = <<MARGIN, examplesY + 300,
                                      SLIDE_WIDTH - (MARGIN * 2),
                                      examplesHeight - 300>>
                            /\ RunTexts(list) = Get(s.examples)
    /\ /\ HasSlides
        /\ Len(slidesWithImages) = Len(Slides)
        /\ ~BuildThrows(slidesWithImages)
        => IsSome(pres)

\* a slide whose bullets and examples each hold a string of 2500
\* characters, as many strings as a list may have
C13_Witness ==
    /\ pc = "write"
    /\ Len(slidesWithImages) = 1
    /\ Len(Get(slidesWithImages[1].bullets)) = MaxItems
    /\ HasExamples(slidesWithImages[1])
    /\ Len(Get(slidesWithImages[1].examples)) = MaxItems
    /\ \E k \in 1..MaxItems :
          TextLength(RunTexts(The(ContentSlideAt(1), "bullets"))[k]) >= 2000
    /\ \E k \in 1..MaxItems :
          TextLength(RunTexts(The(ContentSlideAt(1), "examplesList"))[k])
             >= 2000
    /\ The(ContentSlideAt(1), "bullets").opts.shrinkText
    /\ The(ContentSlideAt(1), "examplesList").opts.shrinkText

----------------------------------------------------------------------------
\* the deck data lacks its slides, or a record lacks its bullets or its
\* examples
Malformed(d) ==
    /\ IsSome(d)
    /\ \/ ~IsSome(Get(d).slides)
       \/ \E i \in 1..Len(Get(Get(d).slides)) :
             \/ ~IsSome(Get(Get(d).slides)[i].bullets)
             \/ ~IsSome(Get(Get(d).slides)[i].examples)

(* C14: a generation whose deck data lacks its slides, or has a record   *)
(* without bullets or without examples, ends with no file written, with  *)
(* the error message as the one message appended to the presentation     *)
(* log, and with the flow back at TOPIC.                                 *)
C14_StructuralErrorsFail ==
    [][ pc # "idle" /\ pc' = "idle" /\ Malformed(data')
        => /\ exported' = exported
           /\ messages' = addMessage(messages, "PRESENTATION", Failure)
           /\ presentationStep' = "TOPIC" ]_vars

----------------------------------------------------------------------------
\* the models asked for the illustration of slide i, in the order asked
ModelsAskedFor(i) ==
    LET rs == SelectSeq(CurrentRequests,
                 LAMBDA r : r.fn = "generateSlideImage" /\ r.slide = i)
    IN  [k \in 1..Len(rs) |-> rs[k].model]

(* C15: the illustration of a slide is requested at most once, whatever  *)
(* the outcome of the request.                                           *)
C15_OneRequestPerSlide ==
    HasSlides => \A i \in 1..Len(Slides) : ImageRequestsFor(i) <= 1

(* C15 as amended: the illustration of a slide is requested at most      *)
(* twice: once from gemini-3-pro-image-preview and, after that request   *)
(* failed with a denial, once from gemini-2.5-flash-image, never a third *)
(* time; a slide without description is never requested, and every       *)
(* described slide gets a request of its own.                            *)
C15_OneFallbackRequest ==
    HasSlides =>
        \A i \in 1..Len(Slides) :
            LET asked == ModelsAskedFor(i)
                next  == Len(slidesWithImages) + 1
            IN  /\ asked \in {<<>>, <<"gemini-3-pro-image-preview">>,
                               <<"gemini-3-pro-image-preview",
                                 "gemini-2.5-flash-image">>}
                /\ Slides[i].imageDescription = "" => asked = <<>>
                /\ i <= Len(slidesWithImages)
                      /\ Slides[i].imageDescription # "" => asked # <<>>
                /\ i > next => asked = <<>>
                /\ i = next /\ pc = "image"
                      => asked = <<"gemini-3-pro-image-preview">>
                /\ i = next /\ pc = "fallback"
                      => asked = <<"gemini-3-pro-image-preview",
                                   "gemini-2.5-flash-image">>
                /\ i = next /\ pc \notin {"image", "fallback"}
                      => asked = <<>>

\* two described slides: the first was denied and asked again from the
\* other model, the second was asked once
C15_Witness ==
    /\ HasSlides
    /\ Len(Slides) = 2
    /\ Len(slidesWithImages) = 2
    /\ Len(ModelsAskedFor(1)) = 2
    /\ ModelsAskedFor(1)[2] = "gemini-2.5-flash-image"
    /\ ModelsAskedFor(2) = <<"gemini-3-pro-image-preview">>

----------------------------------------------------------------------------
\* the boxes of two content slides agree: title with title, bullets with
\* bullets, every element of the image column with every one of the other
\* slide's, and the examples label and list where both slides have them
SameGeometry(one, other) ==
    /\ Box(The(one, "title")) = Box(The(other, "title"))
    /\ Box(The(one, "bullets")) = Box(The(other, "bullets"))
    /\ \A a \in 1..Len(PartsOf(one, ImageColumn)),
          b \in 1..Len(PartsOf(other, ImageColumn)) :
          Box(PartsOf(one, ImageColumn)[a])
             = Box(PartsOf(other, ImageColumn)[b])
    /\ \A part \in {"examplesLabel", "examplesList"} :
          /\ PartsOf(one, {part}) # <<>>
          /\ PartsOf(other, {part}) # <<>>
          => Box(The(one, part)) = Box(The(other, part))

(* C16: the boxes of a content slide depend on the layout constants      *)
(* only: any two content slides of a deck, and a slide of the deck and a *)
(* slide assembled from any other record, with or without illustration,  *)
(* have the same title, image-column and bullets boxes and, where both   *)
(* have examples, the same label and list boxes; assembling the same     *)
(* records again gives the same deck, element for element.               *)
C16_UniformGeometry ==
    IsSome(pres) =>
        /\ \A i, j \in 1..Len(slidesWithImages) :
              SameGeometry(ContentSlideAt(i), ContentSlideAt(j))
        /\ \A i \in 1..Len(slidesWithImages) :
              \A r \in SampleSlides, img \in {NullImage, DataUrl} :
                 SameGeometry(ContentSlideAt(i),
                              ContentSlide(WithImage(r, img)))
        /\ BuildPptx(Title, slidesWithImages) = Deck

\* a deck of two slides that differ in illustration, bullets and examples
C16_Witness ==
    /\ pc = "write"
    /\ Len(slidesWithImages) = 2
    /\ Truthy(slidesWithImages[1].imageBase64)
    /\ ~Truthy(slidesWithImages[2].imageBase64)
    /\ Len(Get(slidesWithImages[1].bullets))
          # Len(Get(slidesWithImages[2].bullets))
    /\ HasExamples(slidesWithImages[1])
    /\ ~HasExamples(slidesWithImages[2])
    /\ Len(ContentSlideAt(1).elements) = 5
    /\ Len(ContentSlideAt(2).elements) = 4

----------------------------------------------------------------------------
----------------------------------------------------------------------------
(* C18: when every request and pres.writeFile is answered or fails in    *)
(* the end, a generation under way ends, with the flow at TOPIC, not     *)
(* loading, and the success message or the error message as the last of  *)
(* the presentation log: the step that ends it appends that one message, *)
(* success exactly when the file was written; and whenever no generation *)
(* is under way the flow is at TOPIC or COUNT and not loading.           *)
C18_GenerationEnds ==
    /\ [](pc = "idle" => presentationStep \in {"TOPIC", "COUNT"}
                          /\ ~isLoading)
    /\ [][ pc # "idle" /\ pc' = "idle"
           => /\ presentationStep' = "TOPIC"
              /\ ~isLoading'
              /\ \E m \in {Failure}
                        \cup (IF IsSome(data')
                              THEN {Success(Get(data').title,
                                            Len(slidesWithImages'))}
                              ELSE {}) :
                    /\ messages' = addMessage(messages, "PRESENTATION", m)
                    /\ m.kind = "success" <=> exported' # exported ]_vars
    /\ (pc # "idle")
          ~> (/\ pc = "idle"
              /\ presentationStep = "TOPIC"
              /\ ~isLoading
              /\ LastMessage.kind \in {"success", "error"})

\* a generation that failed at the export: the deck was built, no file
\* was written, and the flow is back at TOPIC
C18_Witness ==
    /\ pc = "idle"
    /\ IsSome(pres)
    /\ exported = <<>>
    /\ LastMessage = Failure
    /\ presentationStep = "TOPIC"
    /\ ~isLoading

----------------------------------------------------------------------------
(* C19: isLoading is true whenever a request of some handler is in       *)
(* flight: a generation under way, or a call of handleStandardFlow or    *)
(* handleFileUpload waiting for its remote request.                      *)
C19_LoadingWhileInFlight ==
    \/ pc \in {"content", "image", "fallback"}
    \/ \E k \in 1..Len(standard) : standard[k].stage \in {"call", "fallback"}
    => isLoading

----------------------------------------------------------------------------
(* C20: a step changes the log of at most one view, and only by          *)
(* appending to it; what is appended to the log of a view is a message   *)
(* the user sends in that view, or the result of the generation, in the  *)
(* presentation log, or a message of a call of handleStandardFlow or     *)
(* handleFileUpload that was started in that view, whatever view is on   *)
(* screen then.                                                          *)
C20_AppendOnly ==
    [][ /\ \A v, w \in ViewState :
              messages'[v] # messages[v] /\ messages'[w] # messages[w]
              => v = w
        /\ \A v \in ViewState :
              /\ Len(messages'[v]) >= Len(messages[v])
              /\ SubSeq(messages'[v], 1, Len(messages[v])) = messages[v]
              /\ messages'[v] # messages[v] =>
                    \/ /\ v = view
                       /\ messages'[v][Len(messages[v]) + 1].kind = "user"
                    \/ /\ v = "PRESENTATION"
                       /\ pc # "idle" /\ pc' = "idle"
                    \/ \E k \in 1..Len(standard) :
                          /\ standard[k].view = v
                          /\ \/ standard' = RemoveAt(standard, k)
                             \/ /\ standard[k].stage = "encode"
                                /\ standard'
                                     = [standard EXCEPT ![k].stage = "call"]
      ]_vars

\* the tutor has answered while the visualizer, asked later or earlier
\* from its own view, still waits: isLoading was cleared by the tutor's
\* reply after the send in the visualizer
C20_Witness ==
    /\ view = "VISUALIZER"
    /\ messages["TUTOR"] = <<Greeting, UserMessage(<<"a">>), Reply>>
    /\ messages["VISUALIZER"] = <<Greeting, UserMessage(<<"a">>)>>
    /\ messages["SOLVER"] = <<Greeting>>
    /\ Log = <<Greeting>>
    /\ standard = <<[view |-> "VISUALIZER", flow |-> "send",
                     stage |-> "call"]>>
    /\ ~isLoading

----------------------------------------------------------------------------
(* C21: the ids of the messages of a view's log are pairwise distinct.   *)
C21_DistinctIds ==
    \A v \in ViewState :
        \A i, j \in 1..Len(ids[v]) : i # j => ids[v][i] # ids[v][j]

====
